---- MODULE Spec2Model ----
(***************************************************************************)
(* State-machine model of src/main.js: the rate-limiting wrappers          *)
(* (debounce, throttle), the bootstrap sequencer ready(fn), the wiring     *)
(* routine and the listeners it registers, the global functions and the    *)
(* feature probe.                                                          *)
(*                                                                         *)
(* Time is the event loop's clock in milliseconds.  The browser's timer    *)
(* table is the set `timers`; a timer callback runs as soon as it is due   *)
(* (the clock does not advance past a due timer), but an event dispatched  *)
(* at the very instant a timer falls due may run before or after it.       *)
(***************************************************************************)
EXTENDS Integers, Sequences, FiniteSets, TLC

\* ------------------------------------------------------------------ bounds
MaxTicks == 7      \* horizon of the clock for the generic wrappers (ms)
MaxWait == 3       \* largest wait / limit tried for the generic wrappers
MaxCalls == 4      \* calls made to a generic wrapper
MaxWidth == 1300   \* largest window.innerWidth tried
MaxTime == 250     \* horizon of the clock for the page (ms)
MaxScrollTime == 40 \* horizon of the clock while scrolling (ms)
MaxScrolls == 4    \* scroll events dispatched
MaxVpEvents == 3   \* resize / orientationchange events dispatched
MaxCallbacks == 3  \* intersection callbacks delivered

\* ------------------------------------------------------- program constants
NoTimer == -1          \* `let timeout;` holds no timer handle yet
BreakSm == 576
BreakMd == 768
BreakLg == 992
BreakXl == 1200
ScrollLimit == 16      \* throttle(..., 16)
HeaderOffset == 100    \* scrollY > 100
ScrollTopOffset == 500 \* scrollY > 500
ResizeWait == 100      \* debounce(setViewportHeight, 100)
OrientationDelay == 100 \* setTimeout(setViewportHeight, 100)

ArgValues == {"a1", "a2"}
NoArgs == "none"

VARIABLES
    now,          \* event-loop clock
    timers,       \* browser timer table: set of [id, due, cb, args, setAt]
    dWait,        \* the `wait` a generic debounce(func, wait) was built with
    timeout,      \* its closure variable `timeout` (a timer id)
    dHist,        \* history: calls made to the wrapper, invocations of func
    tLimit,       \* the `limit` a generic throttle(func, limit) was built with
    inThrottle,   \* its closure variable `inThrottle`
    tHist,        \* history: calls made to the wrapper, invocations of func
    innerWidth,   \* window.innerWidth
    screenSize,   \* last call of window.getScreenSize(): the width read, the value returned
    page,         \* which elements / APIs the host page has (fixed)
    fault,        \* the one operation of the platform that throws (fixed)
    readyState,   \* document.readyState
    scriptState,  \* "pending", "done" or "aborted" (an exception escaped)
    dclListeners, \* DOMContentLoaded listeners, in registration order
    passed,       \* history: the functions handed to ready()
    runs,         \* history: the functions ready() started, in order
    listeners,    \* registrations made by the wiring routine, per listener
    refs,         \* the wiring routine's const bindings (non-null or not)
    globals,      \* window.* functions defined so far
    shims,        \* the script reached the matches/closest block
    menuActive,   \* #mobileMenu has class "active"
    focus,        \* which element has keyboard focus
    lastEvent,    \* history: the last click / keydown / call and the state before
    scrollY,      \* window.scrollY
    headerStyle,  \* header.style as last written ("base" is also the stylesheet's)
    scrollTopVisible, \* .scroll-top has class "visible"
    scrollGate,   \* closure variable inThrottle of the scroll listener
    scrollHist,   \* history: scroll events
    innerHeight,  \* window.innerHeight
    vh,           \* the --vh custom property
    resizeTimeout,\* closure variable timeout of the resize listener
    vpHist,       \* history: viewport events and --vh writes
    imgs,         \* img -> [dataSrc, src, lazy]
    observed,     \* targets the IntersectionObserver observes
    ioHist        \* history: intersection callbacks

genVars == <<dWait, timeout, dHist, tLimit, inThrottle, tHist, innerWidth, screenSize>>
debVars == <<dWait, timeout, dHist>>
thrVars == <<tLimit, inThrottle, tHist>>
scrVars == <<innerWidth, screenSize>>
cfgVars == <<page, fault>>
bootVars == <<readyState, scriptState, dclListeners, passed, runs, globals, shims>>
wiredVars == <<listeners, refs, vh, vpHist, observed>>
menuVars == <<menuActive, focus, lastEvent>>
scrollVars == <<scrollY, headerStyle, scrollTopVisible, scrollGate, scrollHist>>
vpVars == <<innerHeight, resizeTimeout>>
imgVars == <<imgs, ioHist>>
pageVars == <<cfgVars, bootVars, wiredVars, menuVars, scrollVars, vpVars, imgVars>>

vars == <<now, timers, genVars, pageVars>>

\* ------------------------------------------------------------- timer table
TimerIds(tm) == {x.id : x \in tm}

\* A handle no pending timer and no live closure variable holds.
FreshId(tm, held) ==
    CHOOSE i \in 1..(Cardinality(tm) + Cardinality(held) + 1) :
        /\ i \notin TimerIds(tm) \cup held
        /\ \A j \in 1..(i - 1) : j \in TimerIds(tm) \cup held

SetTimeout(tm, id, cb, args, delay, t) ==
    tm \cup {[id |-> id, due |-> t + delay, cb |-> cb, args |-> args, setAt |-> t]}

ClearTimeout(tm, id) == {x \in tm : x.id # id}

Due(tm, t) == {x \in tm : x.due <= t}

\* Time to the next timer, or `dflt` when none is pending.
NextDue(tm, t, dflt) ==
    IF tm = {} THEN dflt
    ELSE CHOOSE d \in {x.due - t : x \in tm} : \A y \in tm : d <= y.due - t

\* ---------------------------------------------------------------- debounce
\* executedFunction(...args): clearTimeout(timeout); timeout = setTimeout(later, wait)
\* (variant without the clearTimeout: the previous timer stays pending)
ExecutedFunctionNoClear(tm, handle, held, cb, args, wait, t) ==
    LET id == FreshId(tm, held)
    IN  [timers |-> SetTimeout(tm, id, cb, args, wait, t), timeout |-> id]

ExecutedFunction(tm, handle, held, cb, args, wait, t) ==
    LET cleared == ClearTimeout(tm, handle)
        id == FreshId(cleared, held)
    IN  [timers |-> SetTimeout(cleared, id, cb, args, wait, t), timeout |-> id]

\* later(): clearTimeout(timeout); func(...args)  -- the table after it ran
Later(tm, x, handle) == ClearTimeout(tm \ {x}, handle)

\* ---------------------------------------------------------------- throttle
\* function () { if (!inThrottle) { func(); inThrottle = true; setTimeout(..., limit) } }
\* (variant without the `if (!inThrottle)` test)
ThrottledNoGate(tm, gate, held, cb, limit, t) ==
    [invoke |-> TRUE, inThrottle |-> TRUE,
     timers |-> SetTimeout(tm, FreshId(tm, held), cb, NoArgs, limit, t)]

Throttled(tm, gate, held, cb, limit, t) ==
    IF ~gate
    THEN [invoke |-> TRUE, inThrottle |-> TRUE,
          timers |-> SetTimeout(tm, FreshId(tm, held), cb, NoArgs, limit, t)]
    ELSE [invoke |-> FALSE, inThrottle |-> gate, timers |-> tm]

\* ----------------------------------------------------------- getScreenSize
\* (variant with `width <= 576` for the first bucket)
GetScreenSizeOffByOne(width) ==
    IF width <= BreakSm THEN "xs"
    ELSE IF width < BreakMd THEN "sm"
    ELSE IF width < BreakLg THEN "md"
    ELSE IF width < BreakXl THEN "lg"
    ELSE "xl"

GetScreenSize(width) ==
    IF width < BreakSm THEN "xs"
    ELSE IF width < BreakMd THEN "sm"
    ELSE IF width < BreakLg THEN "md"
    ELSE IF width < BreakXl THEN "lg"
    ELSE "xl"

\* ------------------------------------------------------------------- ready
\* ready(fn): run fn now, or defer it to DOMContentLoaded.
\* (variant that also runs fn at once while the document is loading)
ReadyAlsoRunsWhileLoading(rs) == [run |-> TRUE, defer |-> rs = "loading"]

Ready(rs) == [run |-> rs # "loading", defer |-> rs = "loading"]

\* ----------------------------------------------------- the page and faults
Elements == {"mobileMenu", "menuToggle", "header", "scrollTopBtn"}
Faults == {"none", "selector", "vhWrite", "forEach", "css"}
Imgs == {"img1", "img2"}
GlobalNames == {"toggleMobileMenu", "closeMobileMenu", "scrollToTop", "getScreenSize"}
ListenerNames == {"anchorClick", "scroll", "docClick", "linkClick", "resize",
                  "orientationchange", "submit", "keydown", "error",
                  "unhandledrejection"}
Heights == {600, 800}
Offsets == {0, 150, 600}

\* safeSelect(selector): the node, or null when it is absent or the query throws.
SafeSelect(pg, flt, el) == flt # "selector" /\ pg[el]

\* safeSelectAll("img[data-src]"): the images carrying the attribute, or [].
SafeSelectAllImages(flt) == IF flt = "selector" THEN {} ELSE Imgs

\* safeSelectAll(...) for anchors and forms: non-empty or not.
SafeSelectAllFound(flt) == flt # "selector"

\* The listeners one run of the wiring routine registers.
Registered(pg, flt) ==
    {"scroll", "resize", "orientationchange", "keydown", "error",
     "unhandledrejection"}
    \cup (IF SafeSelectAllFound(flt) THEN {"anchorClick", "submit"} ELSE {})
    \cup (IF SafeSelect(pg, flt, "menuToggle") /\ SafeSelect(pg, flt, "mobileMenu")
          THEN {"docClick", "linkClick"} ELSE {})

\* --------------------------------------------------------------- the menu
InMenu(target) == target \in {"menuLink", "menuOther"}
InToggle(target) == target = "toggle"

\* document click listener: the class flag after it ran.
\* (variant without the two contains() tests)
DocumentClickAnyTarget(active, target) == FALSE

DocumentClick(active, target) ==
    IF ~InMenu(target) /\ ~InToggle(target) THEN FALSE ELSE active

\* click listener of a link inside the menu.
LinkClick(active) == FALSE

\* window.toggleMobileMenu / window.closeMobileMenu
ToggleMobileMenu(active, found) == IF found THEN ~active ELSE active
CloseMobileMenu(active, found) == IF found THEN FALSE ELSE active

\* handleKeyboardNavigation(e): the class flag and the focus after it ran.
\* (variant without menuToggle.focus())
HandleKeyboardNavigationNoFocus(key, active, foc, rf) ==
    IF key = "Escape" /\ rf.mobileMenu /\ active
    THEN [active |-> FALSE, focus |-> foc]
    ELSE [active |-> active, focus |-> foc]

HandleKeyboardNavigation(key, active, foc, rf) ==
    IF key = "Escape" /\ rf.mobileMenu /\ active
    THEN [active |-> FALSE, focus |-> IF rf.menuToggle THEN "toggle" ELSE foc]
    ELSE [active |-> active, focus |-> foc]

\* ------------------------------------------------------------ scroll visuals
\* The body of the throttled scroll handler.
HandleScroll(y, rf, style, visible) ==
    [header |-> IF rf.header
                THEN (IF y > HeaderOffset THEN "elevated" ELSE "base")
                ELSE style,
     visible |-> IF rf.scrollTopBtn THEN y > ScrollTopOffset ELSE visible]

\* ---------------------------------------------------------- viewport height
\* `${window.innerHeight * 0.01}px`, kept in hundredths of a pixel.
VhValue(h) == [unit |-> "px", hundredths |-> h]
VhUnset == [unit |-> "unset", hundredths |-> 0]

\* setViewportHeight(): the property after the call (a throwing write is caught).
\* (variant that never overwrites the property once it is set)
SetViewportHeightKeepsFirst(old, h, flt) ==
    IF flt = "vhWrite" \/ old # VhUnset THEN old ELSE VhValue(h)

SetViewportHeight(old, h, flt) == IF flt = "vhWrite" THEN old ELSE VhValue(h)

\* ------------------------------------------------------------- lazy images
\* One entry of the intersection callback: the image and the observed set after.
\* (variant without observer.unobserve(img))
EntryNoUnobserve(im, obs, i, isIntersecting) ==
    IF isIntersecting /\ im[i].dataSrc # ""
    THEN [img |-> [im[i] EXCEPT !.src = im[i].dataSrc, !.lazy = FALSE],
          observed |-> obs, acted |-> TRUE]
    ELSE [img |-> im[i], observed |-> obs, acted |-> FALSE]

Entry(im, obs, i, isIntersecting) ==
    IF isIntersecting /\ im[i].dataSrc # ""
    THEN [img |-> [im[i] EXCEPT !.src = im[i].dataSrc, !.lazy = FALSE],
          observed |-> obs \ {i}, acted |-> TRUE]
    ELSE [img |-> im[i], observed |-> obs, acted |-> FALSE]

\* -------------------------------------------------------------------- Init
Pages == [Elements \cup {"hasIO"} -> BOOLEAN]
FullPage == [e \in Elements \cup {"hasIO"} |-> TRUE]

InitGeneric(waits, limits, widths) ==
    /\ now = 0
    /\ timers = {}
    /\ dWait \in waits
    /\ timeout = NoTimer
    /\ dHist = [calls |-> 0, firstAt |-> 0, lastAt |-> 0, lastArgs |-> NoArgs,
                log |-> <<>>]
    /\ tLimit \in limits
    /\ inThrottle = FALSE
    /\ tHist = [calls |-> 0, invokes |-> 0, lastInvokeAt |-> 0, gap |-> 0,
                last |-> [at |-> 0, invoked |-> FALSE, first |-> FALSE, since |-> 0]]
    /\ innerWidth \in widths
    /\ screenSize = [width |-> 0, size |-> "unset"]

InitPage(pages, faults, sources) ==
    /\ page \in pages
    /\ fault \in faults
    /\ readyState = "loading"
    /\ scriptState = "pending"
    /\ dclListeners = <<>>
    /\ passed = {}
    /\ runs = <<>>
    /\ listeners = [n \in ListenerNames |-> 0]
    /\ refs = [e \in Elements |-> FALSE]
    /\ globals = {}
    /\ shims = FALSE
    /\ menuActive = FALSE
    /\ focus = "body"
    /\ lastEvent = [kind |-> "none", target |-> "none", wasActive |-> FALSE,
                    focusBefore |-> "body", docClick |-> FALSE, linkClick |-> FALSE,
                    keydown |-> FALSE, defined |-> FALSE,
                    refs |-> [e \in Elements |-> FALSE]]
    /\ scrollY = 0
    /\ headerStyle = "base"
    /\ scrollTopVisible = FALSE
    /\ scrollGate = FALSE
    /\ scrollHist = [events |-> 0, lastAt |-> 0, delivered |-> FALSE, invoked |-> FALSE]
    /\ innerHeight \in Heights
    /\ vh = VhUnset
    /\ resizeTimeout = NoTimer
    /\ vpHist = [started |-> FALSE, events |-> 0, lastEventAt |-> 0,
                 bursts |-> 0, orientations |-> 0, delays |-> {},
                 writes |-> [c \in {"startup", "resize", "orientation"} |-> 0]]
    /\ imgs \in [Imgs -> [dataSrc : sources, src : {"placeholder.gif"},
                           lazy : {TRUE}]]
    /\ observed = {}
    /\ ioHist = [callbacks |-> 0, hits |-> [i \in Imgs |-> 0],
                 acts |-> [i \in Imgs |-> 0]]

\* ------------------------------------------------------------------- time
\* The clock advances by d, never past a pending timer.
Advance(d, horizon) ==
    /\ d >= 1
    /\ now + d <= horizon
    /\ d <= NextDue(timers, now, d)
    /\ now' = now + d

Tick ==
    /\ Advance(1, MaxTicks)
    /\ UNCHANGED <<timers, genVars, pageVars>>

\* ------------------------------------------------- the generic wrappers
\* A call of the wrapper returned by debounce(func, dWait).
DebouncedCall(a) ==
    /\ dHist.calls < MaxCalls
    /\ LET r == ExecutedFunction(timers, timeout, {timeout}, "later", a, dWait, now)
       IN  /\ timers' = r.timers
           /\ timeout' = r.timeout
    /\ dHist' = [dHist EXCEPT !.calls = @ + 1,
                              !.firstAt = IF dHist.calls = 0 THEN now ELSE @,
                              !.lastAt = now,
                              !.lastArgs = a]
    /\ UNCHANGED <<now, dWait, thrVars, scrVars, pageVars>>

\* The timer callback `later` of the generic debounce runs: func(...args).
LaterFires(x) ==
    /\ x \in Due(timers, now)
    /\ x.cb = "later"
    /\ timers' = Later(timers, x, timeout)
    /\ dHist' = [dHist EXCEPT !.log = Append(@, [args |-> x.args, at |-> now,
                                                 lastAt |-> dHist.lastAt,
                                                 lastArgs |-> dHist.lastArgs])]
    /\ UNCHANGED <<now, dWait, timeout, thrVars, scrVars, pageVars>>

\* A call of the wrapper returned by throttle(func, tLimit).
ThrottledCall ==
    /\ tHist.calls < MaxCalls
    /\ LET r == Throttled(timers, inThrottle, {timeout}, "gate", tLimit, now)
       IN  /\ timers' = r.timers
           /\ inThrottle' = r.inThrottle
           /\ tHist' = [calls |-> tHist.calls + 1,
                        invokes |-> tHist.invokes + (IF r.invoke THEN 1 ELSE 0),
                        lastInvokeAt |-> IF r.invoke THEN now ELSE tHist.lastInvokeAt,
                        gap |-> IF r.invoke /\ tHist.invokes > 0
                                THEN now - tHist.lastInvokeAt ELSE tHist.gap,
                        last |-> [at |-> now, invoked |-> r.invoke,
                                  first |-> tHist.invokes = 0,
                                  since |-> now - tHist.lastInvokeAt]]
    /\ UNCHANGED <<now, tLimit, debVars, scrVars, pageVars>>

\* The timer callback () => (inThrottle = false) of the generic throttle runs.
GateOpens(x) ==
    /\ x \in Due(timers, now)
    /\ x.cb = "gate"
    /\ timers' = timers \ {x}
    /\ inThrottle' = FALSE
    /\ UNCHANGED <<now, tLimit, tHist, debVars, scrVars, pageVars>>

\* The window is resized to width w (environment).
SetWidth(w) ==
    /\ innerWidth' = w
    /\ UNCHANGED <<now, timers, debVars, thrVars, screenSize, pageVars>>

\* window.getScreenSize() is called.
CallGetScreenSize ==
    /\ screenSize' = [width |-> innerWidth, size |-> GetScreenSize(innerWidth)]
    /\ UNCHANGED <<now, timers, debVars, thrVars, innerWidth, pageVars>>

\* --------------------------------------------------------------- bootstrap
\* The wiring routine handed to ready() runs (lines 57-215).  With NodeList
\* lacking forEach it throws at its first statement and registers nothing.
RunWiring ==
    IF fault = "forEach"
    THEN UNCHANGED wiredVars
    ELSE /\ listeners' = [n \in ListenerNames |->
                            listeners[n] + IF n \in Registered(page, fault) THEN 1 ELSE 0]
         /\ refs' = [e \in Elements |-> SafeSelect(page, fault, e)]
         /\ vh' = SetViewportHeight(vh, innerHeight, fault)
         /\ vpHist' = [vpHist EXCEPT !.started = TRUE,
                          !.writes["startup"] = IF fault = "vhWrite" THEN @ ELSE @ + 1]
         /\ observed' = IF page.hasIO THEN observed \cup SafeSelectAllImages(fault)
                        ELSE observed

\* The script is evaluated top to bottom: ready(wiring), the window.* functions,
\* ready(checkBrowserSupport), the shims.  An exception escaping a synchronous
\* ready() call ends the evaluation there.
ScriptRun ==
    /\ scriptState = "pending"
    /\ LET r1 == Ready(readyState)
           wThrows == r1.run /\ fault = "forEach"
           r2 == Ready(readyState)
           pRuns == ~wThrows /\ r2.run
           pThrows == pRuns /\ fault = "css"
       IN  /\ IF r1.run THEN RunWiring ELSE UNCHANGED wiredVars
           /\ passed' = IF wThrows THEN {"wiring"} ELSE {"wiring", "probe"}
           /\ dclListeners' = dclListeners
                  \o (IF r1.defer THEN <<"wiring">> ELSE <<>>)
                  \o (IF ~wThrows /\ r2.defer THEN <<"probe">> ELSE <<>>)
           /\ runs' = runs \o (IF r1.run THEN <<"wiring">> ELSE <<>>)
                           \o (IF pRuns THEN <<"probe">> ELSE <<>>)
           /\ globals' = IF wThrows THEN globals ELSE GlobalNames
           /\ shims' = IF wThrows \/ pThrows THEN shims ELSE TRUE
           /\ scriptState' = IF wThrows \/ pThrows THEN "aborted" ELSE "done"
    /\ UNCHANGED <<now, timers, genVars, cfgVars, readyState, menuVars, scrollVars,
                   vpVars, imgVars>>

\* The document fires DOMContentLoaded: every registered listener runs, in
\* registration order; an exception in one does not stop the next.
DOMContentLoaded ==
    /\ readyState = "loading"
    /\ readyState' = "interactive"
    /\ IF \E k \in 1..Len(dclListeners) : dclListeners[k] = "wiring"
       THEN RunWiring ELSE UNCHANGED wiredVars
    /\ runs' = runs \o dclListeners
    /\ UNCHANGED <<now, timers, genVars, cfgVars, scriptState, dclListeners, passed,
                   globals, shims, menuVars, scrollVars, vpVars, imgVars>>

\* The document finishes loading.
Load ==
    /\ readyState = "interactive"
    /\ readyState' = "complete"
    /\ UNCHANGED <<now, timers, genVars, cfgVars, scriptState, dclListeners, passed,
                   runs, globals, shims, wiredVars, menuVars, scrollVars, vpVars,
                   imgVars>>

\* --------------------------------------------------------------- the menu
Snapshot(kind, target) ==
    [kind |-> kind, target |-> target, wasActive |-> menuActive,
     focusBefore |-> focus, docClick |-> listeners["docClick"] > 0,
     linkClick |-> listeners["linkClick"] > 0, keydown |-> listeners["keydown"] > 0,
     defined |-> "toggleMobileMenu" \in globals, refs |-> refs]

Targets ==
    {"outside"} \cup (IF page.mobileMenu THEN {"menuLink", "menuOther"} ELSE {})
                \cup (IF page.menuToggle THEN {"toggle"} ELSE {})

\* A click on `target`: the target's own handlers (the toggle's inline
\* onclick="toggleMobileMenu()", a menu link's listener), then the document's.
Click(target) ==
    /\ target \in Targets
    /\ LET a1 == IF InToggle(target) /\ "toggleMobileMenu" \in globals
                 THEN ToggleMobileMenu(menuActive, SafeSelect(page, fault, "mobileMenu"))
                 ELSE menuActive
           a2 == IF target = "menuLink" /\ listeners["linkClick"] > 0
                 THEN LinkClick(a1) ELSE a1
           a3 == IF listeners["docClick"] > 0 THEN DocumentClick(a2, target) ELSE a2
       IN  menuActive' = a3
    /\ lastEvent' = Snapshot("click", target)
    /\ UNCHANGED <<now, timers, genVars, cfgVars, bootVars, wiredVars, focus,
                   scrollVars, vpVars, imgVars>>

\* window.toggleMobileMenu() / window.closeMobileMenu() called from elsewhere.
CallToggleMobileMenu ==
    /\ "toggleMobileMenu" \in globals
    /\ menuActive' = ToggleMobileMenu(menuActive, SafeSelect(page, fault, "mobileMenu"))
    /\ lastEvent' = Snapshot("toggleCall", "none")
    /\ UNCHANGED <<now, timers, genVars, cfgVars, bootVars, wiredVars, focus,
                   scrollVars, vpVars, imgVars>>

CallCloseMobileMenu ==
    /\ "closeMobileMenu" \in globals
    /\ menuActive' = CloseMobileMenu(menuActive, SafeSelect(page, fault, "mobileMenu"))
    /\ lastEvent' = Snapshot("closeCall", "none")
    /\ UNCHANGED <<now, timers, genVars, cfgVars, bootVars, wiredVars, focus,
                   scrollVars, vpVars, imgVars>>

\* A keydown reaches the document.
KeyDown(key) ==
    /\ LET r == IF listeners["keydown"] > 0
                THEN HandleKeyboardNavigation(key, menuActive, focus, refs)
                ELSE [active |-> menuActive, focus |-> focus]
       IN  /\ menuActive' = r.active
           /\ focus' = r.focus
    /\ lastEvent' = Snapshot("keydown", key)
    /\ UNCHANGED <<now, timers, genVars, cfgVars, bootVars, wiredVars, scrollVars,
                   vpVars, imgVars>>

\* The user moves keyboard focus (environment).
FocusMoves(f) ==
    /\ f # focus
    /\ f = "toggle" => page.menuToggle
    /\ focus' = f
    /\ lastEvent' = Snapshot("focus", f)
    /\ UNCHANGED <<now, timers, genVars, cfgVars, bootVars, wiredVars, menuActive,
                   scrollVars, vpVars, imgVars>>

\* ------------------------------------------------------------ scroll visuals
\* (No timer exists before the wiring routine has run, so the clock is left at
\* its origin until then.)
Held == {timeout, resizeTimeout}

\* The page scrolls to offset y and the scroll event is dispatched: the
\* throttled listener (throttle(..., 16)) runs if it is registered.
Scroll(y) ==
    /\ scrollHist.events < MaxScrolls
    /\ y # scrollY
    /\ scrollY' = y
    /\ IF listeners["scroll"] > 0
       THEN LET r == Throttled(timers, scrollGate, Held, "scrollGate", ScrollLimit, now)
                e == IF r.invoke
                     THEN HandleScroll(y, refs, headerStyle, scrollTopVisible)
                     ELSE [header |-> headerStyle, visible |-> scrollTopVisible]
            IN  /\ timers' = r.timers
                /\ scrollGate' = r.inThrottle
                /\ headerStyle' = e.header
                /\ scrollTopVisible' = e.visible
                /\ scrollHist' = [events |-> scrollHist.events + 1, lastAt |-> now,
                                  delivered |-> TRUE, invoked |-> r.invoke]
       ELSE /\ UNCHANGED <<timers, scrollGate, headerStyle, scrollTopVisible>>
            /\ scrollHist' = [events |-> scrollHist.events + 1, lastAt |-> now,
                              delivered |-> FALSE, invoked |-> FALSE]
    /\ UNCHANGED <<now, genVars, cfgVars, bootVars, wiredVars, menuVars, vpVars,
                   imgVars>>

\* The timer callback () => (inThrottle = false) of the scroll listener runs.
ScrollGateOpens(x) ==
    /\ x \in Due(timers, now)
    /\ x.cb = "scrollGate"
    /\ timers' = timers \ {x}
    /\ scrollGate' = FALSE
    /\ UNCHANGED <<now, genVars, cfgVars, bootVars, wiredVars, menuVars, scrollY,
                   headerStyle, scrollTopVisible, scrollHist, vpVars, imgVars>>

PassScroll ==
    /\ runs # <<>>
    /\ \E d \in {5, 16, NextDue(timers, now, 16)} : Advance(d, MaxScrollTime)
    /\ UNCHANGED <<timers, genVars, pageVars>>

\* ---------------------------------------------------------- viewport height
\* The window is resized to height h and the resize event is dispatched: the
\* listener debounce(setViewportHeight, 100) runs if it is registered.  A burst
\* of resize events ends when the debounce timer fires.
Resize(h) ==
    /\ vpHist.events < MaxVpEvents
    /\ innerHeight' = h
    /\ IF listeners["resize"] > 0
       THEN LET r == ExecutedFunction(timers, resizeTimeout, Held, "resizeLater",
                                      NoArgs, ResizeWait, now)
            IN  /\ timers' = r.timers
                /\ resizeTimeout' = r.timeout
                /\ vpHist' = [vpHist EXCEPT
                                !.events = @ + 1,
                                !.lastEventAt = now,
                                !.bursts = IF \E x \in timers : x.cb = "resizeLater"
                                           THEN @ ELSE @ + 1]
       ELSE /\ UNCHANGED <<timers, resizeTimeout>>
            /\ vpHist' = [vpHist EXCEPT !.events = @ + 1]
    /\ UNCHANGED <<now, genVars, cfgVars, bootVars, listeners, refs, vh, observed,
                   menuVars, scrollVars, imgVars>>

\* The device is rotated (the viewport height may already be the new one) and
\* orientationchange is dispatched: handleOrientationChange sets a 100ms timer.
OrientationChange(h) ==
    /\ vpHist.events < MaxVpEvents
    /\ innerHeight' = h
    /\ IF listeners["orientationchange"] > 0
       THEN /\ timers' = SetTimeout(timers, FreshId(timers, Held), "setViewportHeight",
                                    NoArgs, OrientationDelay, now)
            /\ vpHist' = [vpHist EXCEPT !.events = @ + 1, !.lastEventAt = now,
                                        !.orientations = @ + 1]
       ELSE /\ UNCHANGED timers
            /\ vpHist' = [vpHist EXCEPT !.events = @ + 1]
    /\ UNCHANGED <<now, genVars, cfgVars, bootVars, listeners, refs, vh, observed,
                   menuVars, scrollVars, resizeTimeout, imgVars>>

\* A viewport timer runs setViewportHeight: the debounce's `later` ("resizeLater")
\* or the orientation timer ("setViewportHeight").
ViewportTimerFires(x) ==
    /\ x \in Due(timers, now)
    /\ x.cb \in {"resizeLater", "setViewportHeight"}
    /\ timers' = IF x.cb = "resizeLater" THEN Later(timers, x, resizeTimeout)
                 ELSE timers \ {x}
    /\ vh' = SetViewportHeight(vh, innerHeight, fault)
    /\ vpHist' = IF fault = "vhWrite" THEN vpHist
                  ELSE [vpHist EXCEPT
                          !.writes[IF x.cb = "resizeLater" THEN "resize"
                                   ELSE "orientation"] = @ + 1,
                          !.delays = @ \cup {now - x.setAt}]
    /\ UNCHANGED <<now, genVars, cfgVars, bootVars, listeners, refs, observed,
                   menuVars, scrollVars, vpVars, imgVars>>

PassView ==
    /\ runs # <<>>
    /\ \E d \in {50, 99, 100, NextDue(timers, now, 100)} : Advance(d, MaxTime)
    /\ UNCHANGED <<timers, genVars, pageVars>>

\* ------------------------------------------------------------- lazy images
\* The observer delivers one callback with an entry for each image of S.
Intersect(S, e) ==
    /\ ioHist.callbacks < MaxCallbacks
    /\ S # {}
    /\ S \subseteq observed
    /\ imgs' = [i \in Imgs |-> IF i \in S THEN Entry(imgs, observed, i, e[i]).img
                               ELSE imgs[i]]
    /\ observed' = {j \in observed :
                       \A i \in S : j \in Entry(imgs, observed, i, e[i]).observed}
    /\ ioHist' = [callbacks |-> ioHist.callbacks + 1,
                  hits |-> [i \in Imgs |-> ioHist.hits[i]
                                + IF i \in S /\ e[i] THEN 1 ELSE 0],
                  acts |-> [i \in Imgs |-> ioHist.acts[i]
                                + IF i \in S /\ Entry(imgs, observed, i, e[i]).acted
                                  THEN 1 ELSE 0]]
    /\ UNCHANGED <<now, timers, genVars, cfgVars, bootVars, listeners, refs, vh,
                   vpHist, menuVars, scrollVars, vpVars>>

\* ---------------------------------------------------------- specifications
InitDebounce ==
    InitGeneric(0..MaxWait, {0}, {0}) /\ InitPage({FullPage}, {"none"}, {"real.jpg"})
InitThrottle ==
    InitGeneric({0}, 0..MaxWait, {0}) /\ InitPage({FullPage}, {"none"}, {"real.jpg"})
InitScreen ==
    InitGeneric({0}, {0}, 0..MaxWidth) /\ InitPage({FullPage}, {"none"}, {"real.jpg"})
InitBoot ==
    InitGeneric({0}, {0}, {0}) /\ InitPage(Pages, Faults, {"", "real.jpg"})
InitMenu ==
    InitGeneric({0}, {0}, {0})
    /\ InitPage({p \in Pages : p.header /\ p.scrollTopBtn /\ p.hasIO}, {"none"},
                {"real.jpg"})

NextDebounce ==
    \/ Tick
    \/ \E a \in ArgValues : DebouncedCall(a)
    \/ \E x \in timers : LaterFires(x)

NextThrottle ==
    \/ Tick
    \/ ThrottledCall
    \/ \E x \in timers : GateOpens(x)

NextScreen ==
    \/ \E w \in {0, BreakSm - 1, BreakSm, BreakMd - 1, BreakMd, BreakLg - 1,
                 BreakLg, BreakXl - 1, BreakXl, MaxWidth} : SetWidth(w)
    \/ CallGetScreenSize

NextBoot ==
    \/ ScriptRun
    \/ DOMContentLoaded
    \/ Load

NextMenu ==
    \/ ScriptRun
    \/ DOMContentLoaded
    \/ \E t \in {"outside", "menuLink", "menuOther", "toggle"} : Click(t)
    \/ CallToggleMobileMenu
    \/ CallCloseMobileMenu
    \/ \E k \in {"Escape", "Tab"} : KeyDown(k)
    \/ \E f \in {"body", "link", "toggle"} : FocusMoves(f)

SpecDebounce == InitDebounce /\ [][NextDebounce]_vars
SpecThrottle == InitThrottle /\ [][NextThrottle]_vars
SpecScreen == InitScreen /\ [][NextScreen]_vars
SpecBoot == InitBoot /\ [][NextBoot]_vars
SpecMenu == InitMenu /\ [][NextMenu]_vars


InitScroll ==
    InitGeneric({0}, {0}, {0})
    /\ InitPage({p \in Pages : p.mobileMenu /\ p.menuToggle /\ p.hasIO}, {"none"},
                {"real.jpg"})
InitView ==
    InitGeneric({0}, {0}, {0}) /\ InitPage({FullPage}, {"none"}, {"real.jpg"})
InitLazy ==
    InitGeneric({0}, {0}, {0})
    /\ InitPage({p \in Pages : p.mobileMenu /\ p.menuToggle /\ p.header
                               /\ p.scrollTopBtn}, {"none"}, {"", "real.jpg"})

NextScroll ==
    \/ ScriptRun
    \/ DOMContentLoaded
    \/ \E y \in Offsets : Scroll(y)
    \/ \E x \in timers : ScrollGateOpens(x)
    \/ PassScroll

NextView ==
    \/ ScriptRun
    \/ DOMContentLoaded
    \/ \E h \in Heights : Resize(h)
    \/ \E h \in Heights : OrientationChange(h)
    \/ \E x \in timers : ViewportTimerFires(x)
    \/ PassView

NextLazy ==
    \/ ScriptRun
    \/ DOMContentLoaded
    \/ \E S \in SUBSET Imgs : \E e \in [S -> BOOLEAN] : Intersect(S, e)

SpecScroll == InitScroll /\ [][NextScroll]_vars
SpecView == InitView /\ [][NextView]_vars
SpecLazy == InitLazy /\ [][NextLazy]_vars

\* ------------------------------------------------------------------ claims
PendingCb(cb) == {x \in timers : x.cb = cb}

\* C1: every invocation of func by the debounced wrapper carries the arguments
\* of the last call made so far and happens no earlier than dWait after that
\* call; and when all calls made so far fall within a span shorter than dWait,
\* func has not run while the timer is pending and has run exactly once, with
\* the last call's arguments, once it is no longer pending (at the latest when
\* more than dWait has passed since the last call).
C1_DebounceOnceWithLastArgs ==
    /\ \A k \in 1..Len(dHist.log) :
          /\ dHist.log[k].at >= dHist.log[k].lastAt + dWait
          /\ dHist.log[k].args = dHist.log[k].lastArgs
    /\ (dHist.calls >= 1 /\ dHist.lastAt - dHist.firstAt < dWait) =>
          /\ PendingCb("later") # {} => Len(dHist.log) = 0
          /\ now > dHist.lastAt + dWait => PendingCb("later") = {}
          /\ PendingCb("later") = {} =>
                /\ Len(dHist.log) = 1
                /\ dHist.log[1].args = dHist.lastArgs
                /\ dHist.log[1].at >= dHist.lastAt + dWait

C1_Witness ==
    /\ dHist.calls >= 3
    /\ dHist.lastAt > dHist.firstAt
    /\ dHist.lastAt - dHist.firstAt < dWait
    /\ Len(dHist.log) = 1
    /\ dHist.log[1].args = "a2"

\* C2: the first call of the throttled wrapper invokes func; a call made less
\* than tLimit after the last invoking call is dropped and a call made more
\* than tLimit after it invokes func again; two invocations are at least
\* tLimit apart; func runs only inside a call of the wrapper.
C2_ThrottleWindow ==
    /\ tHist.calls >= 1 =>
          /\ tHist.last.first => tHist.last.invoked
          /\ (~tHist.last.first /\ tHist.last.since < tLimit) => ~tHist.last.invoked
          /\ (~tHist.last.first /\ tHist.last.since > tLimit) => tHist.last.invoked
    /\ tHist.invokes >= 2 => tHist.gap >= tLimit
    /\ tHist.invokes <= tHist.calls
    /\ tHist.calls = 0 => tHist.invokes = 0

C2_Witness ==
    /\ tLimit >= 2
    /\ tHist.invokes = 2
    /\ tHist.calls = 4
    /\ tHist.last.invoked

\* C7: getScreenSize buckets the width read at 576, 768, 992 and 1200.
C7_ScreenSizeBuckets ==
    screenSize.size # "unset" =>
        LET w == screenSize.width
        IN  /\ screenSize.size = "xs" <=> w < 576
            /\ screenSize.size = "sm" <=> (576 <= w /\ w < 768)
            /\ screenSize.size = "md" <=> (768 <= w /\ w < 992)
            /\ screenSize.size = "lg" <=> (992 <= w /\ w < 1200)
            /\ screenSize.size = "xl" <=> w >= 1200

C7_Witness == screenSize = [width |-> 1199, size |-> "lg"]

RunCount(f) == Cardinality({k \in 1..Len(runs) : runs[k] = f})

\* C9: a function handed to ready() is started at most once, never before
\* DOMContentLoaded when the script ran while the document was loading, exactly
\* once as soon as the document is past "loading"; the wiring routine starts
\* before the probe; no listener of the wiring routine is registered twice.
C9_ReadyRunsOnce ==
    /\ \A f \in {"wiring", "probe"} : RunCount(f) <= 1
    /\ readyState = "loading" => runs = <<>>
    /\ readyState # "loading" => \A f \in passed : RunCount(f) = 1
    /\ runs \in {<<>>, <<"wiring">>, <<"wiring", "probe">>}
    /\ \A n \in ListenerNames : listeners[n] <= 1

C9_Witness ==
    /\ dclListeners = <<"wiring", "probe">>
    /\ runs = <<"wiring", "probe">>
    /\ listeners["scroll"] = 1

BootOver == scriptState # "pending" /\ readyState # "loading"

\* C6: whichever single operation throws, once the script was evaluated and
\* the document is past "loading" the window.* functions are defined, the shim
\* block was reached and the listeners that do not depend on the failing
\* operation are registered.
C6_IsolatedFailures ==
    BootOver =>
        /\ globals = GlobalNames
        /\ shims
        /\ \A n \in {"scroll", "resize", "orientationchange", "keydown", "error",
                     "unhandledrejection"} : listeners[n] >= 1

\* C3 as stated: with the menu open, an outside click, a click on a menu link
\* and Escape each leave it closed (Escape also focusing the toggle), in every
\* page state.
C3_DismissalAlways ==
    lastEvent.wasActive =>
        /\ (lastEvent.kind = "click" /\ lastEvent.target \in {"outside", "menuLink"})
              => ~menuActive
        /\ (lastEvent.kind = "keydown" /\ lastEvent.target = "Escape")
              => (~menuActive /\ focus = "toggle")

\* C3 amended: the same, once the wiring routine has run: the two click
\* dismissals when it found both #mobileMenu and .mobile-menu-toggle, the
\* Escape dismissal when it found #mobileMenu, and the move of focus when it
\* also found .mobile-menu-toggle.
C3_DismissalWhenWired ==
    lastEvent.wasActive =>
        /\ (/\ lastEvent.kind = "click"
            /\ lastEvent.target \in {"outside", "menuLink"}
            /\ lastEvent.refs.mobileMenu /\ lastEvent.refs.menuToggle)
              => ~menuActive
        /\ (/\ lastEvent.kind = "keydown" /\ lastEvent.target = "Escape"
            /\ lastEvent.refs.mobileMenu)
              => /\ ~menuActive
                 /\ lastEvent.refs.menuToggle => focus = "toggle"

C3_Witness ==
    /\ lastEvent.kind = "keydown" /\ lastEvent.target = "Escape"
    /\ lastEvent.wasActive /\ lastEvent.focusBefore = "link"
    /\ lastEvent.refs.mobileMenu /\ lastEvent.refs.menuToggle
    /\ ~menuActive /\ focus = "toggle"

\* C10: a click inside the toggle or the menu is left alone by the document
\* click listener, so a click on the toggle (toggleMobileMenu defined, menu
\* present) flips the flag exactly once; a click inside the menu changes the
\* flag only through a menu link's own listener; a keydown other than Escape,
\* or Escape with the menu closed, changes neither the flag nor the focus.
C10_ToggleClickFlipsOnce ==
    /\ (/\ lastEvent.kind = "click" /\ lastEvent.target = "toggle"
        /\ lastEvent.defined /\ page.mobileMenu)
          => menuActive = ~lastEvent.wasActive
    /\ (lastEvent.kind = "click" /\ lastEvent.target = "menuOther")
          => menuActive = lastEvent.wasActive
    /\ (lastEvent.kind = "click" /\ lastEvent.target = "menuLink")
          => menuActive = (IF lastEvent.linkClick THEN FALSE ELSE lastEvent.wasActive)
    /\ (/\ lastEvent.kind = "keydown"
        /\ (lastEvent.target # "Escape" \/ ~lastEvent.wasActive))
          => (menuActive = lastEvent.wasActive /\ focus = lastEvent.focusBefore)

C10_Witness ==
    /\ lastEvent.kind = "click" /\ lastEvent.target = "toggle"
    /\ lastEvent.docClick
    /\ ~lastEvent.wasActive /\ menuActive

\* C4: once a scroll event has been delivered to the throttled listener and
\* scrolling has stopped (more than 16ms since the last scroll event), the
\* header is elevated exactly when the offset exceeds 100 and the scroll-to-top
\* control is visible exactly when the offset exceeds 500.
C4_VisualsFollowOffset ==
    (scrollHist.delivered /\ now > scrollHist.lastAt + 16) =>
        /\ refs.header => headerStyle = (IF scrollY > 100 THEN "elevated" ELSE "base")
        /\ refs.scrollTopBtn => scrollTopVisible = (scrollY > 500)

\* C8: --vh is written once when the wiring routine runs; every later write
\* happens exactly 100ms after the resize or orientationchange event whose
\* timer makes it; each resize burst makes one write and each orientationchange
\* makes one write; and once more than 100ms have passed since the last such
\* event no timer is pending and --vh is 1% of the current viewport height.
C8_ViewportHeightFollows ==
    /\ vpHist.writes["startup"] = (IF vpHist.started THEN 1 ELSE 0)
    /\ ~vpHist.started => (vpHist.writes["resize"] = 0 /\ vpHist.writes["orientation"] = 0)
    /\ vpHist.delays \subseteq {100}
    /\ vpHist.writes["resize"] + Cardinality(PendingCb("resizeLater")) = vpHist.bursts
    /\ Cardinality(PendingCb("resizeLater")) <= 1
    /\ vpHist.writes["orientation"] + Cardinality(PendingCb("setViewportHeight"))
          = vpHist.orientations
    /\ (vpHist.started /\ now > vpHist.lastEventAt + 100) =>
          PendingCb("resizeLater") \cup PendingCb("setViewportHeight") = {}
    /\ (/\ vpHist.started
        /\ PendingCb("resizeLater") \cup PendingCb("setViewportHeight") = {})
          => vh = [unit |-> "px", hundredths |-> innerHeight]

C8_Witness ==
    /\ vpHist.writes = [c \in {"startup", "resize", "orientation"} |-> 1]
    /\ vpHist.bursts = 1
    /\ vpHist.events = 3
    /\ timers = {}
    /\ vh = [unit |-> "px", hundredths |-> innerHeight]

\* C5 as stated: every image carrying data-src is upgraded by its first
\* intersecting entry: src is the data-src value, "lazy" is gone, the image is
\* unobserved, and no second intersecting entry is ever delivered for it.
C5_UpgradeEveryImage ==
    \A i \in Imgs :
        ioHist.hits[i] >= 1 =>
            /\ imgs[i].src = imgs[i].dataSrc
            /\ ~imgs[i].lazy
            /\ i \notin observed
            /\ ioHist.hits[i] = 1
            /\ ioHist.acts[i] = 1

\* C5 amended: the same for every image whose data-src value is not empty; and
\* an image no intersecting entry was delivered for is untouched.
C5_UpgradeNonEmpty ==
    \A i \in Imgs :
        /\ (ioHist.hits[i] >= 1 /\ imgs[i].dataSrc # "") =>
              /\ imgs[i].src = imgs[i].dataSrc
              /\ ~imgs[i].lazy
              /\ i \notin observed
              /\ ioHist.hits[i] = 1
              /\ ioHist.acts[i] = 1
        /\ ioHist.hits[i] = 0 => (imgs[i].src = "placeholder.gif" /\ imgs[i].lazy)

C5_Witness ==
    /\ ioHist.callbacks >= 2
    /\ ioHist.hits["img1"] = 1
    /\ imgs["img1"].src = "real.jpg"
    /\ ~imgs["img1"].lazy
    /\ observed = {"img2"}
    /\ imgs["img2"].dataSrc = "real.jpg"

====
